---- MODULE Spec2Model ----
(***************************************************************************)
(* The news page's two click handlers: the fetch-news handler (input       *)
(* validation, POST /fetch_news, body read, rendering, binding of the      *)
(* download control) and the download-pdf handler it binds (POST           *)
(* /generate_pdf, body read, blob, browser download).  Each handler is     *)
(* an async function: it runs atomically between its await points, and     *)
(* several invocations may be suspended at the same time.  The login       *)
(* page's submit handler (POST /login, body read as JSON, navigation or    *)
(* error text) is a third handler, on a page of its own.                   *)
(***************************************************************************)
EXTENDS Integers, Sequences, FiniteSets, TLC

\* ------------------------------------------------------------------------
\* Bounds of the model

\* How many times the fetch control is clicked in one behaviour.
MaxFetchClicks == 2
\* How many times the download control is clicked in one behaviour.
MaxPdfClicks == 1
\* How many times the login form is submitted in one behaviour.
MaxLoginSubmits == 3

\* ------------------------------------------------------------------------
\* Dates.  A date input is a sequence of one-character strings, so that the
\* regular expression and the Date parser can look at each character.

Digits == {"0", "1", "2", "3", "4", "5", "6", "7", "8", "9"}

DigitVal(c) ==
    CASE c = "0" -> 0 [] c = "1" -> 1 [] c = "2" -> 2 [] c = "3" -> 3
      [] c = "4" -> 4 [] c = "5" -> 5 [] c = "6" -> 6 [] c = "7" -> 7
      [] c = "8" -> 8 [] c = "9" -> 9

\* The characters of a date input joined into one string (template literals
\* and JSON.stringify use the input as a string).
RECURSIVE Str(_)
Str(cs) == IF cs = <<>> THEN "" ELSE Head(cs) \o Str(Tail(cs))

\* /^\d{4}-\d{2}-\d{2}$/.test(date)
dateRegexTest(cs) ==
    /\ Len(cs) = 10
    /\ \A i \in {1, 2, 3, 4, 6, 7, 9, 10} : cs[i] \in Digits
    /\ cs[5] = "-"
    /\ cs[8] = "-"

\* Milliseconds in a day, a second, a minute, an hour.
MsPerDay == 86400000
MsPerSecond == 1000
MsPerMinute == 60000
MsPerHour == 3600000

\* Floor division, also for a negative numerator.
FloorDiv(a, b) == IF a >= 0 THEN a \div b ELSE -((-a + b - 1) \div b)

\* Days from 1970-01-01 to day d of month m (1..12) of year y, in the
\* proleptic Gregorian calendar (ECMAScript MakeDay); a day past the end of
\* the month counts on into the next month.
DaysFromCivil(y, m, d) ==
    LET yy  == IF m <= 2 THEN y - 1 ELSE y
        era == FloorDiv(yy, 400)
        yoe == yy - era * 400
        mp  == IF m > 2 THEN m - 3 ELSE m + 9
        doy == (153 * mp + 2) \div 5 + d - 1
        doe == yoe * 365 + yoe \div 4 - yoe \div 100 + doy
    IN  era * 146097 + doe - 719468

\* A time value: Invalid Date (NaN), or a day number since 1970-01-01 UTC
\* with the milliseconds elapsed in that UTC day.
NaNTime == [nan |-> TRUE, day |-> 0, ms |-> 0]
TimeValue(day, ms) ==
    [nan |-> FALSE, day |-> day + FloorDiv(ms, MsPerDay),
     ms |-> ms - FloorDiv(ms, MsPerDay) * MsPerDay]

\* selectedDate > today: the relational operator on two Dates compares their
\* time values; a comparison with NaN is false.
TimeGreater(a, b) ==
    /\ ~a.nan
    /\ ~b.nan
    /\ \/ a.day > b.day
       \/ a.day = b.day /\ a.ms > b.ms

\* new Date(date + 'T23:59:59+05:30') for a date that passed the regular
\* expression: month 01..12 and day 01..31 are accepted (a day past the end
\* of the month runs into the next month), anything else is Invalid Date;
\* the local time 23:59:59 at offset +05:30 is moved to UTC.
EndOfDayHour == 23
EndOfDayMinute == 59
EndOfDaySecond == 59
IstOffsetHours == 5
IstOffsetMinutes == 30

IstOffsetMs == IstOffsetHours * MsPerHour + IstOffsetMinutes * MsPerMinute

ParseEndOfDayIst(cs) ==
    LET y == DigitVal(cs[1]) * 1000 + DigitVal(cs[2]) * 100
             + DigitVal(cs[3]) * 10 + DigitVal(cs[4])
        m == DigitVal(cs[6]) * 10 + DigitVal(cs[7])
        d == DigitVal(cs[9]) * 10 + DigitVal(cs[10])
    IN  IF m \notin 1..12 \/ d \notin 1..31
        THEN NaNTime
        ELSE TimeValue(DaysFromCivil(y, m, 1) + d - 1,
                       EndOfDayHour * MsPerHour + EndOfDayMinute * MsPerMinute
                       + EndOfDaySecond * MsPerSecond - IstOffsetMs)

\* ------------------------------------------------------------------------
\* JavaScript values.  An object is a record (a function from its own
\* property names); {} is the record with no fields; null is JsNull.

JsNull == [jsnull |-> TRUE]
IsNull(v) == DOMAIN v = {"jsnull"}
EmptyObject == [k \in {} |-> ""]

\* o.k || d for a property that holds a string when present.
PropOrStrict(o, k, d) == IF k \in DOMAIN o THEN o[k] ELSE d
PropOr(o, k, d) == IF k \in DOMAIN o /\ o[k] # "" THEN o[k] ELSE d

\* o.source?.name || d
SourceNameOr(o, d) ==
    IF "source" \in DOMAIN o /\ ~IsNull(o.source)
    THEN PropOr(o.source, "name", d)
    ELSE d

\* Articles the backend answers with.
ArticleA ==
    [title |-> "A", url |-> "http://x", category |-> "Sports",
     source |-> [name |-> "S"], publishedAt |-> "2024-01-01",
     related_articles |-> <<>>]
RelatedR ==
    [title |-> "R", url |-> "http://r", source |-> [name |-> "RS"],
     publishedAt |-> "2024-01-02"]
ArticleB ==
    [title |-> "B", source |-> EmptyObject,
     related_articles |-> <<RelatedR, EmptyObject>>]

\* Response bodies, as the text response.text() resolves with.
BodyOneArticle ==
    "{\"articles\":[{\"title\":\"A\",\"url\":\"http://x\",\"category\":\"Sports\",\"source\":{\"name\":\"S\"},\"publishedAt\":\"2024-01-01\",\"related_articles\":[]}],\"is_mock\":false}"
BodyMockArticles ==
    "{\"articles\":[{\"title\":\"B\",\"source\":{},\"related_articles\":[{\"title\":\"R\",\"url\":\"http://r\",\"source\":{\"name\":\"RS\"},\"publishedAt\":\"2024-01-02\"},{}]},{}],\"is_mock\":true}"
BodyNoArticles == "{\"articles\":[],\"is_mock\":false}"
BodyEmptyObject == "{}"
BodyError == "{\"error\":\"rate limited\"}"
BodyErrorWithArticles ==
    "{\"error\":\"quota\",\"articles\":[{\"title\":\"A\",\"url\":\"http://x\",\"category\":\"Sports\",\"source\":{\"name\":\"S\"},\"publishedAt\":\"2024-01-01\",\"related_articles\":[]}]}"
BodyEmptyError == "{\"error\":\"\"}"
BodyNull == "null"
BodyNullArticle == "{\"articles\":[null]}"
BodyHtml == "<html>Bad Gateway</html>"
BodyPdfError == "{\"error\":\"bad input\"}"
BodyPdfBytes == "%PDF-1.4"
BodyPlaceholder == "No response body"
BodyLoginOk == "{\"success\":true}"
BodyLoginOkMessage == "{\"success\":true,\"message\":\"welcome\"}"
BodyLoginBadCreds == "{\"success\":false,\"message\":\"bad creds\"}"
BodyLoginNoMessage == "{\"success\":false}"
BodyLoginEmptyMessage == "{\"success\":false,\"message\":\"\"}"

\* JSON.parse on the texts above: the parsed value, or the SyntaxError's
\* message.
Parsed(v) == [ok |-> TRUE, value |-> v]
ParseFails(m) == [ok |-> FALSE, message |-> m]

JSONParse(text) ==
    CASE text = BodyOneArticle ->
           Parsed([articles |-> <<ArticleA>>, is_mock |-> FALSE])
      [] text = BodyMockArticles ->
           Parsed([articles |-> <<ArticleB, EmptyObject>>, is_mock |-> TRUE])
      [] text = BodyNoArticles ->
           Parsed([articles |-> <<>>, is_mock |-> FALSE])
      [] text = BodyEmptyObject -> Parsed(EmptyObject)
      [] text = BodyError -> Parsed([error |-> "rate limited"])
      [] text = BodyErrorWithArticles ->
           Parsed([error |-> "quota", articles |-> <<ArticleA>>])
      [] text = BodyEmptyError -> Parsed([error |-> ""])
      [] text = BodyPdfError -> Parsed([error |-> "bad input"])
      [] text = BodyNull -> Parsed(JsNull)
      [] text = BodyNullArticle -> Parsed([articles |-> <<JsNull>>])
      [] text = BodyLoginOk -> Parsed([success |-> TRUE])
      [] text = BodyLoginOkMessage ->
           Parsed([success |-> TRUE, message |-> "welcome"])
      [] text = BodyLoginBadCreds ->
           Parsed([success |-> FALSE, message |-> "bad creds"])
      [] text = BodyLoginNoMessage -> Parsed([success |-> FALSE])
      [] text = BodyLoginEmptyMessage ->
           Parsed([success |-> FALSE, message |-> ""])
      [] text = BodyHtml ->
           ParseFails("Unexpected token '<', \"<html>Bad \"... is not valid JSON")
      [] text = BodyPdfBytes ->
           ParseFails("Unexpected token '%', \"%PDF-1.4\" is not valid JSON")
      [] text = BodyPlaceholder ->
           ParseFails("Unexpected token 'N', \"No response body\" is not valid JSON")
      [] text = "" -> ParseFails("Unexpected end of JSON input")

\* ------------------------------------------------------------------------
\* Responses.  fetch() resolves with a response once its status and headers
\* have arrived; the body arrives while response.text() reads it.  The body
\* of a response with a null-body status (204) is null.  response.ok is
\* status in 200..299.

\* The statuses the backend may answer with (an invocation that holds no
\* response has status 0).
Statuses == {200, 204, 500}
NullBodyStatus(status) == status \in {204}
ResponseOk(status) == status \in 200..299

\* What fetch() rejects with: a network failure (a TypeError), or the abort
\* of AbortSignal.timeout (a DOMException named TimeoutError).  The names are
\* fixed by the Fetch and DOM standards; the message is the platform's own
\* wording, which the handlers show as it comes: the wordings of two
\* platforms are the choices here.
NetworkErrorMessages == {"Failed to fetch", "fetch failed"}
NetworkError(message) == [name |-> "TypeError", message |-> message]
TimeoutErrorMessages ==
    {"signal timed out", "The operation was aborted due to timeout"}
TimeoutError(message) == [name |-> "TimeoutError", message |-> message]
FetchErrors ==
    {NetworkError(m) : m \in NetworkErrorMessages}
    \cup {TimeoutError(m) : m \in TimeoutErrorMessages}

\* What response.blob() rejects with once response.text() has read the body:
\* a TypeError, again with the platform's wording.
BodyUsedErrorMessages ==
    {"Failed to execute 'blob' on 'Response': body stream already read",
     "Body is unusable: Body has already been read"}
BodyUsedError(message) == [name |-> "TypeError", message |-> message]
BodyUsedErrors == {BodyUsedError(m) : m \in BodyUsedErrorMessages}

\* ------------------------------------------------------------------------
\* Inputs

\* The district selector's value ("" when nothing is selected).
Districts == {"", "Guntur"}

\* The date picker's value.
DateEmpty == <<>>
DateYesterday == <<"2", "0", "2", "4", "-", "0", "6", "-", "1", "4">>
DateToday == <<"2", "0", "2", "4", "-", "0", "6", "-", "1", "5">>
DateTomorrow == <<"2", "0", "2", "4", "-", "0", "6", "-", "1", "6">>
DateDayFirst == <<"1", "5", "-", "0", "6", "-", "2", "0", "2", "4">>
DateShortMonth == <<"2", "0", "2", "4", "-", "6", "-", "1", "5">>
DateTrailing == <<"2", "0", "2", "4", "-", "0", "6", "-", "1", "4", "x">>
DateMonth13 == <<"2", "0", "2", "4", "-", "1", "3", "-", "0", "1">>
DateFeb30 == <<"2", "0", "2", "4", "-", "0", "2", "-", "3", "0">>
DateInputs ==
    {DateEmpty, DateYesterday, DateToday, DateTomorrow, DateDayFirst}
WideDateInputs ==
    DateInputs \cup {DateShortMonth, DateTrailing, DateMonth13, DateFeb30}

\* The current instant at a click: instants of 2024-06-15 in IST, around the
\* end of that day.
IstInstant(y, m, d, h, mi, s, ms) ==
    TimeValue(DaysFromCivil(y, m, d),
              h * MsPerHour + mi * MsPerMinute + s * MsPerSecond + ms
              - IstOffsetMs)
NowInputs ==
    {IstInstant(2024, 6, 15, 12, 0, 0, 0),
     IstInstant(2024, 6, 15, 23, 59, 59, 0)}
WideNowInputs ==
    NowInputs
    \cup {IstInstant(2024, 6, 15, 0, 0, 0, 0),
          IstInstant(2024, 6, 15, 23, 59, 58, 999),
          IstInstant(2024, 6, 15, 23, 59, 59, 999)}

\* What /fetch_news and /generate_pdf may answer.
FetchBodies ==
    {BodyOneArticle, BodyMockArticles, BodyNoArticles, BodyEmptyObject,
     BodyError, BodyErrorWithArticles, BodyEmptyError, BodyNull,
     BodyNullArticle, BodyHtml}
PdfBodies == {BodyPdfBytes, BodyPdfError, BodyEmptyObject, BodyHtml}

\* What the login form's fields hold at a submission, and what /login may
\* answer ("" is a response without a body).
Usernames == {"", "alice"}
Passwords == {"", "secret"}
LoginBodies ==
    {BodyLoginOk, BodyLoginOkMessage, BodyLoginBadCreds, BodyLoginNoMessage,
     BodyLoginEmptyMessage, BodyEmptyObject, BodyNull, BodyHtml, ""}

\* ------------------------------------------------------------------------
\* The fetch-news click handler, as functions of what it reads

\* Lines 9-29: the message of the first failing check, "" when all pass.
ValidationMessageDateFirst(district, date, now) ==
    IF date = DateEmpty THEN "Please select a date"
    ELSE IF district = "" THEN "Please select a district"
    ELSE IF ~dateRegexTest(date) THEN "Invalid date format (use YYYY-MM-DD)"
    ELSE IF TimeGreater(ParseEndOfDayIst(date), now)
         THEN "Date cannot be in the future"
    ELSE ""

ValidationMessage(district, date, now) ==
    IF district = "" THEN "Please select a district"
    ELSE IF date = DateEmpty THEN "Please select a date"
    ELSE IF ~dateRegexTest(date) THEN "Invalid date format (use YYYY-MM-DD)"
    ELSE IF TimeGreater(ParseEndOfDayIst(date), now)
         THEN "Date cannot be in the future"
    ELSE ""

\* Line 33, 40: JSON.stringify({ district, date })
FetchRequestBody(district, date) ==
    "{\"district\":\"" \o district \o "\",\"date\":\"" \o Str(date) \o "\"}"

\* Lines 53-62: the message of the Error thrown for a response that is not ok.
NonOkMessage(errorText) ==
    LET p == JSONParse(errorText)
    IN  IF p.ok /\ ~IsNull(p.value) /\ PropOr(p.value, "error", "") # ""
        THEN p.value.error
        ELSE "Failed to fetch news. Please try again later."

\* Lines 157-159: the status text the outer catch writes.
CatchStatusNoTimeout(error) == "Error: " \o error.message

CatchStatusBare(error) ==
    IF error.name = "TimeoutError"
    THEN "Request timed out. Please check your internet connection or try again later."
    ELSE error.message

CatchStatus(error) ==
    IF error.name = "TimeoutError"
    THEN "Request timed out. Please check your internet connection or try again later."
    ELSE "Error: " \o error.message

\* Lines 91-93: the related articles, each as a <div>, joined.
RelatedDiv(rel) ==
    "<div><a href=\"" \o PropOr(rel, "url", "#") \o "\" target=\"_blank\">"
    \o PropOr(rel, "title", "No Title") \o "</a> ("
    \o SourceNameOr(rel, "Unknown Source") \o ", "
    \o PropOr(rel, "publishedAt", "Unknown Date") \o ")</div>"

RECURSIVE RelatedHtml(_)
RelatedHtml(rels) ==
    IF rels = <<>> THEN "" ELSE RelatedDiv(Head(rels)) \o RelatedHtml(Tail(rels))

\* Lines 88-101: the cells of the row of one article.
RenderRowNoDefaults(article) ==
    LET rels == PropOrStrict(article, "related_articles", <<>>)
    IN  [href        |-> PropOrStrict(article, "url", ""),
         title       |-> PropOrStrict(article, "title", ""),
         category    |-> PropOrStrict(article, "category", ""),
         source      |-> SourceNameOr(article, ""),
         publishedAt |-> PropOrStrict(article, "publishedAt", ""),
         related     |-> RelatedHtml(rels)]

RenderRow(article) ==
    LET rels    == PropOrStrict(article, "related_articles", <<>>)
        related == RelatedHtml(rels)
    IN  [href        |-> PropOr(article, "url", "#"),
         title       |-> PropOr(article, "title", "No Title"),
         category    |-> PropOr(article, "category", "Unknown"),
         source      |-> SourceNameOr(article, "Unknown Source"),
         publishedAt |-> PropOr(article, "publishedAt", "Unknown Date"),
         related     |-> IF related # "" THEN related ELSE "None"]

\* Line 86: newsBody.innerHTML = ''
ClearRowsKeepLast(rows) == IF rows = <<>> THEN <<>> ELSE <<rows[Len(rows)]>>
ClearRowsKeep(rows) == rows
ClearRows(rows) == <<>>

\* Lines 87-103: one row appended per article, in the order of the array.
RECURSIVE AppendRows(_, _)
AppendRows(rows, articles) ==
    IF articles = <<>> THEN rows
    ELSE AppendRows(Append(rows, RenderRow(Head(articles))), Tail(articles))

\* Lines 80-84: the status text of a render.
LoadedStatus(result, district) ==
    IF "is_mock" \in DOMAIN result /\ result.is_mock
    THEN "No real articles found for " \o district
         \o ". Displaying sample data. Please verify your Currents API key in .env (get a free key at https://currentsapi.services/en)."
    ELSE "Articles loaded successfully."

\* Lines 52-105: what the handler does with the text of the body: it throws
\* (into the outer catch), reports a server error, reports an empty result,
\* or renders.
Throws(name, message) ==
    [kind |-> "throw", error |-> [name |-> name, message |-> message]]

HandleBodyArticlesFirst(ok, errorText, district) ==
    IF ~ok THEN Throws("Error", NonOkMessage(errorText))
    ELSE
    LET p == JSONParse(errorText) IN
    IF ~p.ok THEN Throws("SyntaxError", p.message)
    ELSE
    LET result == p.value IN
    IF IsNull(result)
    THEN Throws("TypeError", "Cannot read properties of null (reading 'error')")
    ELSE IF "articles" \notin DOMAIN result \/ Len(result.articles) = 0
    THEN [kind |-> "empty",
          status |-> "No articles found for the selected district and date."]
    ELSE IF \E k \in 1..Len(result.articles) : IsNull(result.articles[k])
    THEN Throws("TypeError", "Cannot read properties of null (reading 'source')")
    ELSE IF PropOr(result, "error", "") # ""
    THEN [kind |-> "serverError", status |-> "Server error: " \o result.error]
    ELSE [kind |-> "render", status |-> LoadedStatus(result, district),
          articles |-> result.articles]

HandleBody(ok, errorText, district) ==
    IF ~ok THEN Throws("Error", NonOkMessage(errorText))
    ELSE
    LET p == JSONParse(errorText) IN
    IF ~p.ok THEN Throws("SyntaxError", p.message)
    ELSE
    LET result == p.value IN
    IF IsNull(result)
    THEN Throws("TypeError", "Cannot read properties of null (reading 'error')")
    ELSE IF PropOr(result, "error", "") # ""
    THEN [kind |-> "serverError", status |-> "Server error: " \o result.error]
    ELSE IF "articles" \notin DOMAIN result \/ Len(result.articles) = 0
    THEN [kind |-> "empty",
          status |-> "No articles found for the selected district and date."]
    ELSE IF \E k \in 1..Len(result.articles) : IsNull(result.articles[k])
    THEN Throws("TypeError", "Cannot read properties of null (reading 'source')")
    ELSE [kind |-> "render", status |-> LoadedStatus(result, district),
          articles |-> result.articles]

\* ------------------------------------------------------------------------
\* The download-pdf handler, as functions of what it reads

\* Lines 129-138: the message of the Error thrown for a response that is not ok.
PdfNonOkMessageBare(pdfErrorText) ==
    LET p == JSONParse(pdfErrorText)
    IN  IF p.ok /\ ~IsNull(p.value) /\ PropOr(p.value, "error", "") # ""
        THEN p.value.error
        ELSE "Failed to generate PDF. Please try again later."

PdfNonOkMessage(pdfErrorText) ==
    LET p == JSONParse(pdfErrorText)
    IN  IF p.ok /\ ~IsNull(p.value) /\ PropOr(p.value, "error", "") # ""
        THEN "PDF generation failed: " \o p.value.error
        ELSE "Failed to generate PDF. Please try again later."

\* Line 145: a.download
DownloadName(district, date) ==
    "news_digest_" \o district \o "_" \o Str(date) \o ".pdf"

\* Line 109: the payload of the request, from what the closure captured.
PdfPayload(closure) ==
    [articles |-> closure.articles, district |-> closure.district,
     date |-> Str(closure.date)]

\* ------------------------------------------------------------------------
\* The login submit handler (login.js), as functions of what it reads

\* Line 11: JSON.stringify({ username, password })
LoginRequestBody(username, password) ==
    "{\"username\":\"" \o username \o "\",\"password\":\"" \o password \o "\"}"

\* Line 14: result.success as a condition.
LoginSucceeded(result) == "success" \in DOMAIN result /\ result.success

\* Line 17: result.message || 'Login failed'
LoginFailureMessageBare(result) == PropOrStrict(result, "message", "")

LoginFailureMessage(result) == PropOr(result, "message", "Login failed")

\* Lines 13-21 on the text of the body: response.json() rejects with a
\* SyntaxError when the text is not JSON, reading a property of null throws
\* a TypeError, and both end in the catch; otherwise the handler navigates
\* or shows the failure message.
LoginOutcome(text) ==
    LET p == JSONParse(text) IN
    IF ~p.ok THEN [kind |-> "catch"]
    ELSE IF IsNull(p.value) THEN [kind |-> "catch"]
    ELSE IF LoginSucceeded(p.value) THEN [kind |-> "navigate"]
    ELSE [kind |-> "message", text |-> LoginFailureMessage(p.value)]

\* ------------------------------------------------------------------------
\* State

VARIABLES
    errorMessage,     \* textContent of #error-message
    newsBody,         \* the rows of #news-body
    downloadDisplay,  \* style.display of #download-pdf
    onclick,          \* the handler bound to #download-pdf, with what it captured
    fetchInv,         \* the invocations of the fetch-news handler
    pdfInv,           \* the invocations of the download-pdf handler
    downloads,        \* the downloads the browser started (a.click())
    objectURLs,       \* object URLs created and not revoked
    bodyAnchors,      \* <a> elements appended to document.body and not removed
    lastResult,       \* the articles of the latest 2xx body parsed without an error field
    resolved,         \* history: the fetch invocations in the order their awaits ended them
    loginErrorMessage, \* textContent of the login page's #error-message
    location,         \* window.location.href of the login page
    loginInv          \* the invocations of the login submit handler

vars ==
    <<errorMessage, newsBody, downloadDisplay, onclick, fetchInv, pdfInv,
      downloads, objectURLs, bodyAnchors, lastResult, resolved,
      loginErrorMessage, location, loginInv>>

page == <<errorMessage, newsBody, downloadDisplay, onclick>>
browser == <<downloads, objectURLs, bodyAnchors>>
news ==
    <<errorMessage, newsBody, downloadDisplay, onclick, fetchInv, pdfInv,
      downloads, objectURLs, bodyAnchors, lastResult>>
loginPage == <<loginErrorMessage, location, loginInv>>

NoHandler == [bound |-> FALSE, articles |-> <<>>, district |-> "", date |-> <<>>]
Handler(articles, district, date) ==
    [bound |-> TRUE, articles |-> articles, district |-> district, date |-> date]

FetchIds == 1..MaxFetchClicks
PdfIds == 1..MaxPdfClicks
LoginIds == 1..MaxLoginSubmits

\* An invocation that has not started or has returned holds nothing.
\* An invocation suspended at the await of fetch() holds the request in flight.
NoRequest == ""
NoPayload == [articles |-> <<>>, district |-> "", date |-> ""]
FetchIdle ==
    [pc |-> "idle", district |-> "", date |-> <<>>, request |-> NoRequest,
     status |-> 0]
FetchDone ==
    [pc |-> "done", district |-> "", date |-> <<>>, request |-> NoRequest,
     status |-> 0]
PdfIdle ==
    [pc |-> "idle", closure |-> NoHandler, request |-> NoPayload,
     status |-> 0]
PdfDone ==
    [pc |-> "done", closure |-> NoHandler, request |-> NoPayload,
     status |-> 0]

LoginIdle == [pc |-> "idle", request |-> NoRequest]
LoginDone == [pc |-> "done", request |-> NoRequest]

Init ==
    /\ errorMessage = ""
    /\ newsBody = <<>>
    /\ downloadDisplay = "none"
    /\ onclick = NoHandler
    /\ fetchInv = [i \in FetchIds |-> FetchIdle]
    /\ pdfInv = [j \in PdfIds |-> PdfIdle]
    /\ downloads = <<>>
    /\ objectURLs = 0
    /\ bodyAnchors = 0
    /\ lastResult = <<>>
    /\ resolved = <<>>
    /\ loginErrorMessage = ""
    /\ location = "/login"
    /\ loginInv = [k \in LoginIds |-> LoginIdle]

\* ------------------------------------------------------------------------
\* The fetch-news click handler (lines 1-164)

\* Lines 2-42 with a validation failure that also clears the table and
\* hides the download control.
FetchClickClearing(i, district, date, now) ==
    /\ fetchInv[i].pc = "idle"
    /\ \A k \in FetchIds : k < i => fetchInv[k].pc # "idle"
    /\ LET msg == ValidationMessage(district, date, now) IN
       IF msg # ""
       THEN /\ errorMessage' = msg
            /\ newsBody' = <<>>
            /\ downloadDisplay' = "none"
            /\ fetchInv' = [fetchInv EXCEPT ![i] = FetchDone]
       ELSE /\ errorMessage' = "Fetching news..."
            /\ fetchInv' = [fetchInv EXCEPT ![i] =
                 [pc |-> "awaitFetch", district |-> district, date |-> date,
                  request |-> FetchRequestBody(district, date),
                  status |-> 0]]
            /\ UNCHANGED <<newsBody, downloadDisplay>>
    /\ UNCHANGED <<onclick, pdfInv, browser, lastResult>>

\* The i-th click: lines 2-29 return with a validation message, or lines
\* 31-42 write 'Fetching news...' and send the request; the handler is then
\* suspended at the await of fetch().
FetchClick(i, district, date, now) ==
    /\ fetchInv[i].pc = "idle"
    /\ \A k \in FetchIds : k < i => fetchInv[k].pc # "idle"
    /\ LET msg == ValidationMessage(district, date, now) IN
       IF msg # ""
       THEN /\ errorMessage' = msg
            /\ fetchInv' = [fetchInv EXCEPT ![i] = FetchDone]
       ELSE /\ errorMessage' = "Fetching news..."
            /\ fetchInv' = [fetchInv EXCEPT ![i] =
                 [pc |-> "awaitFetch", district |-> district, date |-> date,
                  request |-> FetchRequestBody(district, date),
                  status |-> 0]]
    /\ UNCHANGED <<newsBody, downloadDisplay, onclick, pdfInv, browser, lastResult>>

\* Lines 156-163 without line 162: the download control stays as it is.
FetchCatchKeepsControl(i, error) ==
    /\ errorMessage' = CatchStatus(error)
    /\ newsBody' = <<>>
    /\ fetchInv' = [fetchInv EXCEPT ![i] = FetchDone]
    /\ UNCHANGED <<downloadDisplay, onclick>>

\* Lines 156-163 with a retry the handler does not have: the catch sends the
\* request again.
FetchCatchRetries(i, error) ==
    /\ errorMessage' = "Fetching news..."
    /\ fetchInv' = [fetchInv EXCEPT ![i].pc = "awaitFetch",
                                    ![i].request =
                                      FetchRequestBody(fetchInv[i].district,
                                                       fetchInv[i].date),
                                    ![i].status = 0]
    /\ UNCHANGED <<newsBody, downloadDisplay, onclick>>

\* Lines 156-163: the outer catch.
FetchCatch(i, error) ==
    /\ errorMessage' = CatchStatus(error)
    /\ newsBody' = <<>>
    /\ downloadDisplay' = "none"
    /\ fetchInv' = [fetchInv EXCEPT ![i] = FetchDone]
    /\ UNCHANGED onclick

\* fetch() resolves with a response: line 46 starts reading the body and the
\* handler is suspended at the await of response.text().
FetchResolve(i, status) ==
    /\ fetchInv[i].pc = "awaitFetch"
    /\ fetchInv' = [fetchInv EXCEPT ![i].pc = "awaitText",
                                    ![i].request = NoRequest,
                                    ![i].status = status]
    /\ UNCHANGED <<page, pdfInv, browser, lastResult>>

\* fetch() rejects (network failure or timeout): the outer catch.
FetchReject(i, error) ==
    /\ fetchInv[i].pc = "awaitFetch"
    /\ FetchCatch(i, error)
    /\ UNCHANGED <<pdfInv, browser, lastResult>>

\* Lines 52-163 with a guard the handler does not have: the response of an
\* invocation is dropped when a later click has been made.
FetchFinishLatestIssued(i, errorText) ==
    IF \E k \in FetchIds : k > i /\ fetchInv[k].pc # "idle"
    THEN /\ fetchInv' = [fetchInv EXCEPT ![i] = FetchDone]
         /\ UNCHANGED <<page, pdfInv, browser, lastResult>>
    ELSE LET inv == fetchInv[i]
             out == HandleBody(ResponseOk(inv.status), errorText, inv.district)
         IN  /\ errorMessage' =
                  IF out.kind = "throw" THEN CatchStatus(out.error) ELSE out.status
             /\ newsBody' =
                  IF out.kind = "render" THEN AppendRows(<<>>, out.articles) ELSE <<>>
             /\ downloadDisplay' = IF out.kind = "render" THEN "block" ELSE "none"
             /\ onclick' =
                  IF out.kind = "render"
                  THEN Handler(out.articles, inv.district, inv.date) ELSE onclick
             /\ lastResult' =
                  IF out.kind = "render" THEN out.articles
                  ELSE IF out.kind = "empty" THEN <<>> ELSE lastResult
             /\ fetchInv' = [fetchInv EXCEPT ![i] = FetchDone]
             /\ UNCHANGED <<pdfInv, browser>>

\* Lines 52-163 with a binding that is set once and not replaced by later
\* renders.
FetchFinishKeepsBinding(i, errorText) ==
    LET inv == fetchInv[i]
        out == HandleBody(ResponseOk(inv.status), errorText, inv.district)
    IN  /\ errorMessage' =
             IF out.kind = "throw" THEN CatchStatus(out.error) ELSE out.status
        /\ newsBody' =
             IF out.kind = "render" THEN AppendRows(<<>>, out.articles) ELSE <<>>
        /\ downloadDisplay' = IF out.kind = "render" THEN "block" ELSE "none"
        /\ onclick' =
             IF out.kind = "render" /\ ~onclick.bound
             THEN Handler(out.articles, inv.district, inv.date) ELSE onclick
        /\ lastResult' =
             IF out.kind = "render" THEN out.articles
             ELSE IF out.kind = "empty" THEN <<>> ELSE lastResult
        /\ fetchInv' = [fetchInv EXCEPT ![i] = FetchDone]
        /\ UNCHANGED <<pdfInv, browser>>

\* Lines 52-163 on the text of the body.
FetchFinish(i, errorText) ==
    LET inv == fetchInv[i]
        out == HandleBody(ResponseOk(inv.status), errorText, inv.district)
    IN  /\ CASE out.kind = "throw" ->
                  /\ FetchCatch(i, out.error)
                  /\ UNCHANGED lastResult
             [] out.kind \in {"serverError", "empty"} ->
                  /\ errorMessage' = out.status
                  /\ newsBody' = <<>>
                  /\ downloadDisplay' = "none"
                  /\ lastResult' = IF out.kind = "empty" THEN <<>> ELSE lastResult
                  /\ fetchInv' = [fetchInv EXCEPT ![i] = FetchDone]
                  /\ UNCHANGED onclick
             [] out.kind = "render" ->
                  /\ errorMessage' = out.status
                  /\ newsBody' = AppendRows(ClearRows(newsBody), out.articles)
                  /\ downloadDisplay' =
                       IF Len(out.articles) # 0 THEN "block" ELSE "none"
                  /\ onclick' = Handler(out.articles, inv.district, inv.date)
                  /\ lastResult' = out.articles
                  /\ fetchInv' = [fetchInv EXCEPT ![i] = FetchDone]
        /\ UNCHANGED <<pdfInv, browser>>

\* response.text() resolves with the text of the body; a null body reads as
\* the empty string.
FetchTextResolve(i, text) ==
    /\ fetchInv[i].pc = "awaitText"
    /\ NullBodyStatus(fetchInv[i].status) => text = ""
    /\ ~NullBodyStatus(fetchInv[i].status) => text \in FetchBodies
    /\ FetchFinish(i, text)

\* response.text() rejects (the connection drops or the timeout fires while
\* the body streams): lines 48-50 substitute the placeholder.
FetchTextReject(i) ==
    /\ fetchInv[i].pc = "awaitText"
    /\ ~NullBodyStatus(fetchInv[i].status)
    /\ FetchFinish(i, BodyPlaceholder)

\* ------------------------------------------------------------------------
\* The download-pdf handler (lines 106-155)

\* Lines 151-154: the catch of the download handler.
PdfCatchClearing(j, error) ==
    /\ errorMessage' = error.message
    /\ newsBody' = <<>>
    /\ downloadDisplay' = "none"
    /\ pdfInv' = [pdfInv EXCEPT ![j] = PdfDone]
    /\ UNCHANGED onclick

\* Lines 151-154 with a retry the handler does not have: the catch sends the
\* request again.
PdfCatchRetries(j, error) ==
    /\ errorMessage' = "Generating PDF..."
    /\ pdfInv' = [pdfInv EXCEPT ![j].pc = "awaitFetch",
                                ![j].request = PdfPayload(pdfInv[j].closure),
                                ![j].status = 0]
    /\ UNCHANGED <<newsBody, downloadDisplay, onclick>>

PdfCatch(j, error) ==
    /\ errorMessage' = error.message
    /\ pdfInv' = [pdfInv EXCEPT ![j] = PdfDone]
    /\ UNCHANGED <<newsBody, downloadDisplay, onclick>>

\* Lines 108-118 run by a click on a control that need not be visible nor
\* bound.
PdfClickUnbound(j) ==
    /\ pdfInv[j].pc = "idle"
    /\ \A k \in PdfIds : k < j => pdfInv[k].pc # "idle"
    /\ errorMessage' = "Generating PDF..."
    /\ pdfInv' = [pdfInv EXCEPT ![j] =
         [pc |-> "awaitFetch", closure |-> onclick,
          request |-> PdfPayload(onclick), status |-> 0]]
    /\ UNCHANGED <<newsBody, downloadDisplay, onclick, fetchInv, browser, lastResult>>

\* The user clicks the visible download control: lines 108-118 write
\* 'Generating PDF...' and send the request with what the bound handler
\* captured.
PdfClick(j) ==
    /\ pdfInv[j].pc = "idle"
    /\ \A k \in PdfIds : k < j => pdfInv[k].pc # "idle"
    /\ downloadDisplay = "block"
    /\ onclick.bound
    /\ errorMessage' = "Generating PDF..."
    /\ pdfInv' = [pdfInv EXCEPT ![j] =
         [pc |-> "awaitFetch", closure |-> onclick,
          request |-> PdfPayload(onclick), status |-> 0]]
    /\ UNCHANGED <<newsBody, downloadDisplay, onclick, fetchInv, browser, lastResult>>

PdfResolve(j, status) ==
    /\ pdfInv[j].pc = "awaitFetch"
    /\ pdfInv' = [pdfInv EXCEPT ![j].pc = "awaitText",
                                ![j].request = NoPayload,
                                ![j].status = status]
    /\ UNCHANGED <<page, fetchInv, browser, lastResult>>

PdfReject(j, error) ==
    /\ pdfInv[j].pc = "awaitFetch"
    /\ PdfCatch(j, error)
    /\ UNCHANGED <<fetchInv, browser, lastResult>>

\* Lines 128-141 on the text of the body: a response that is not ok throws
\* into the catch; otherwise line 141 calls pdfResponse.blob() and the
\* handler is suspended at its await.
PdfAfterText(j, pdfErrorText) ==
    IF ~ResponseOk(pdfInv[j].status)
    THEN PdfCatch(j, [name |-> "Error", message |-> PdfNonOkMessage(pdfErrorText)])
    ELSE /\ pdfInv' = [pdfInv EXCEPT ![j].pc = "awaitBlob"]
         /\ UNCHANGED page

PdfTextResolve(j, text) ==
    /\ pdfInv[j].pc = "awaitText"
    /\ NullBodyStatus(pdfInv[j].status) => text = ""
    /\ ~NullBodyStatus(pdfInv[j].status) => text \in PdfBodies
    /\ PdfAfterText(j, text)
    /\ UNCHANGED <<fetchInv, browser, lastResult>>

PdfTextReject(j) ==
    /\ pdfInv[j].pc = "awaitText"
    /\ ~NullBodyStatus(pdfInv[j].status)
    /\ PdfAfterText(j, BodyPlaceholder)
    /\ UNCHANGED <<fetchInv, browser, lastResult>>

\* Lines 142-150 without lines 148-149: the anchor stays in the document and
\* the object URL is not revoked.
PdfBlobResolveLeaks(j) ==
    /\ pdfInv[j].pc = "awaitBlob"
    /\ NullBodyStatus(pdfInv[j].status)
    /\ LET c == pdfInv[j].closure IN
       /\ downloads' = Append(downloads, DownloadName(c.district, c.date))
       /\ bodyAnchors' = bodyAnchors + 1
       /\ objectURLs' = objectURLs + 1
    /\ errorMessage' = "PDF downloaded successfully"
    /\ pdfInv' = [pdfInv EXCEPT ![j] = PdfDone]
    /\ UNCHANGED <<newsBody, downloadDisplay, onclick, fetchInv, lastResult>>

\* pdfResponse.blob() resolves: only a response without a body can still be
\* read after text().  Lines 142-150: object URL, anchor, click, removal,
\* revocation, status.
PdfBlobResolve(j) ==
    /\ pdfInv[j].pc = "awaitBlob"
    /\ NullBodyStatus(pdfInv[j].status)
    /\ LET c == pdfInv[j].closure
           urls1 == objectURLs + 1
           anchors1 == bodyAnchors + 1
       IN  /\ downloads' = Append(downloads, DownloadName(c.district, c.date))
           /\ bodyAnchors' = anchors1 - 1
           /\ objectURLs' = urls1 - 1
    /\ errorMessage' = "PDF downloaded successfully"
    /\ pdfInv' = [pdfInv EXCEPT ![j] = PdfDone]
    /\ UNCHANGED <<newsBody, downloadDisplay, onclick, fetchInv, lastResult>>

\* pdfResponse.blob() rejects: text() has already read the body of the
\* response, so the body is unusable and blob() rejects with a TypeError.
PdfBlobReject(j, error) ==
    /\ pdfInv[j].pc = "awaitBlob"
    /\ ~NullBodyStatus(pdfInv[j].status)
    /\ PdfCatch(j, error)
    /\ UNCHANGED <<fetchInv, browser, lastResult>>

\* ------------------------------------------------------------------------
\* The login submit handler (login.js lines 1-22)

\* The k-th submission: lines 2-12 read the fields and send the request; the
\* handler is then suspended at the await of fetch().
LoginSubmit(k, username, password) ==
    /\ loginInv[k].pc = "idle"
    /\ \A h \in LoginIds : h < k => loginInv[h].pc # "idle"
    /\ loginInv' = [loginInv EXCEPT ![k] =
         [pc |-> "awaitFetch", request |-> LoginRequestBody(username, password)]]
    /\ UNCHANGED <<loginErrorMessage, location>>

\* Lines 19-21: the catch.
LoginCatch(k) ==
    /\ loginErrorMessage' = "An error occurred"
    /\ loginInv' = [loginInv EXCEPT ![k] = LoginDone]
    /\ UNCHANGED location

\* fetch() resolves with a response (its status is never read): line 13
\* starts reading the body and the handler is suspended at the await of
\* response.json().
LoginResolve(k) ==
    /\ loginInv[k].pc = "awaitFetch"
    /\ loginInv' = [loginInv EXCEPT ![k] = [pc |-> "awaitJson", request |-> NoRequest]]
    /\ UNCHANGED <<loginErrorMessage, location>>

\* fetch() rejects (network failure): the catch.
LoginReject(k) ==
    /\ loginInv[k].pc = "awaitFetch"
    /\ LoginCatch(k)

\* The body has been read: response.json() resolves with the parsed value
\* or rejects because the text is not JSON; lines 14-21.
LoginJsonSettle(k, text) ==
    /\ loginInv[k].pc = "awaitJson"
    /\ LET out == LoginOutcome(text) IN
       CASE out.kind = "catch" -> LoginCatch(k)
         [] out.kind = "navigate" ->
              /\ location' = "/dashboard"
              /\ loginInv' = [loginInv EXCEPT ![k] = LoginDone]
              /\ UNCHANGED loginErrorMessage
         [] out.kind = "message" ->
              /\ loginErrorMessage' = out.text
              /\ loginInv' = [loginInv EXCEPT ![k] = LoginDone]
              /\ UNCHANGED location

\* response.json() rejects because the connection drops while the body
\* streams: the catch.
LoginJsonReject(k) ==
    /\ loginInv[k].pc = "awaitJson"
    /\ LoginCatch(k)

\* ------------------------------------------------------------------------
\* The specification

\* The news page: the fetch-news handler and the download-pdf handler.
Next ==
    \/ \E i \in FetchIds, district \in Districts, date \in DateInputs,
          now \in NowInputs :
         FetchClick(i, district, date, now) /\ UNCHANGED <<resolved, loginPage>>
    \/ \E i \in FetchIds, status \in Statuses :
         FetchResolve(i, status) /\ UNCHANGED <<resolved, loginPage>>
    \/ \E i \in FetchIds, error \in FetchErrors :
         FetchReject(i, error) /\ UNCHANGED <<resolved, loginPage>>
    \/ \E i \in FetchIds, text \in FetchBodies \cup {""} :
         FetchTextResolve(i, text) /\ UNCHANGED <<resolved, loginPage>>
    \/ \E i \in FetchIds :
         FetchTextReject(i) /\ UNCHANGED <<resolved, loginPage>>
    \/ \E j \in PdfIds :
         PdfClick(j) /\ UNCHANGED <<resolved, loginPage>>
    \/ \E j \in PdfIds, status \in Statuses :
         PdfResolve(j, status) /\ UNCHANGED <<resolved, loginPage>>
    \/ \E j \in PdfIds, error \in FetchErrors :
         PdfReject(j, error) /\ UNCHANGED <<resolved, loginPage>>
    \/ \E j \in PdfIds, text \in PdfBodies \cup {""} :
         PdfTextResolve(j, text) /\ UNCHANGED <<resolved, loginPage>>
    \/ \E j \in PdfIds :
         PdfTextReject(j) /\ UNCHANGED <<resolved, loginPage>>
    \/ \E j \in PdfIds :
         PdfBlobResolve(j) /\ UNCHANGED <<resolved, loginPage>>
    \/ \E j \in PdfIds, error \in BodyUsedErrors :
         PdfBlobReject(j, error) /\ UNCHANGED <<resolved, loginPage>>

Spec == Init /\ [][Next]_vars

\* The fetch-news handler alone, clicked with a wider choice of dates and
\* instants.
NextDates ==
    \/ \E i \in FetchIds, district \in Districts, date \in WideDateInputs,
          now \in WideNowInputs :
         FetchClick(i, district, date, now) /\ UNCHANGED <<resolved, loginPage>>
    \/ \E i \in FetchIds, status \in Statuses :
         FetchResolve(i, status) /\ UNCHANGED <<resolved, loginPage>>
    \/ \E i \in FetchIds, error \in FetchErrors :
         FetchReject(i, error) /\ UNCHANGED <<resolved, loginPage>>
    \/ \E i \in FetchIds, text \in FetchBodies \cup {""} :
         FetchTextResolve(i, text) /\ UNCHANGED <<resolved, loginPage>>
    \/ \E i \in FetchIds :
         FetchTextReject(i) /\ UNCHANGED <<resolved, loginPage>>

SpecDates == Init /\ [][NextDates]_vars

\* The fetch-news handler alone, with the history of the order in which the
\* invocations that sent a request returned.
NextRace ==
    \/ \E i \in FetchIds, district \in Districts, date \in DateInputs,
          now \in NowInputs :
         FetchClick(i, district, date, now) /\ UNCHANGED <<resolved, loginPage>>
    \/ \E i \in FetchIds, status \in Statuses :
         FetchResolve(i, status) /\ UNCHANGED <<resolved, loginPage>>
    \/ \E i \in FetchIds, error \in FetchErrors :
         /\ FetchReject(i, error)
         /\ resolved' = Append(resolved, i)
         /\ UNCHANGED loginPage
    \/ \E i \in FetchIds, text \in FetchBodies \cup {""} :
         /\ FetchTextResolve(i, text)
         /\ resolved' = Append(resolved, i)
         /\ UNCHANGED loginPage
    \/ \E i \in FetchIds :
         /\ FetchTextReject(i)
         /\ resolved' = Append(resolved, i)
         /\ UNCHANGED loginPage

SpecRace == Init /\ [][NextRace]_vars

\* The news page under fair scheduling, with queries that pass validation.
\* AbortSignal.timeout(15000) (lines 41 and 117) aborts the request and the
\* body stream of the response after 15 seconds, so the await of fetch() and
\* the await of response.text() of every invocation settle; response.blob()
\* on a body that is null or already read settles at once.
LiveFetchBodies == {BodyOneArticle, BodyNoArticles, BodyErrorWithArticles}
LivePdfBodies == {BodyPdfBytes, BodyPdfError}

FetchSettles(i) ==
    /\ \/ \E status \in Statuses : FetchResolve(i, status)
       \/ \E error \in FetchErrors : FetchReject(i, error)
       \/ \E text \in LiveFetchBodies \cup {""} : FetchTextResolve(i, text)
       \/ FetchTextReject(i)
    /\ UNCHANGED <<resolved, loginPage>>

PdfSettles(j) ==
    /\ \/ \E status \in Statuses : PdfResolve(j, status)
       \/ \E error \in FetchErrors : PdfReject(j, error)
       \/ \E text \in LivePdfBodies \cup {""} : PdfTextResolve(j, text)
       \/ PdfTextReject(j)
       \/ PdfBlobResolve(j)
       \/ \E error \in BodyUsedErrors : PdfBlobReject(j, error)
    /\ UNCHANGED <<resolved, loginPage>>

NextLive ==
    \/ \E i \in FetchIds :
         /\ FetchClick(i, "Guntur", DateYesterday, IstInstant(2024, 6, 15, 12, 0, 0, 0))
         /\ UNCHANGED <<resolved, loginPage>>
    \/ \E i \in FetchIds : FetchSettles(i)
    \/ \E j \in PdfIds : PdfClick(j) /\ UNCHANGED <<resolved, loginPage>>
    \/ \E j \in PdfIds : PdfSettles(j)

SpecLive ==
    /\ Init
    /\ [][NextLive]_vars
    /\ \A i \in FetchIds : WF_vars(FetchSettles(i))
    /\ \A j \in PdfIds : WF_vars(PdfSettles(j))

\* The login page alone.
NextLogin ==
    \/ \E k \in LoginIds, username \in Usernames, password \in Passwords :
         LoginSubmit(k, username, password) /\ UNCHANGED <<news, resolved>>
    \/ \E k \in LoginIds : LoginResolve(k) /\ UNCHANGED <<news, resolved>>
    \/ \E k \in LoginIds : LoginReject(k) /\ UNCHANGED <<news, resolved>>
    \/ \E k \in LoginIds, text \in LoginBodies :
         LoginJsonSettle(k, text) /\ UNCHANGED <<news, resolved>>
    \/ \E k \in LoginIds : LoginJsonReject(k) /\ UNCHANGED <<news, resolved>>

SpecLogin == Init /\ [][NextLogin]_vars

\* ------------------------------------------------------------------------
\* Properties

\* The step is a click of the fetch control (a new query or a validation
\* failure).
IsFetchClick(i) == fetchInv[i].pc = "idle" /\ fetchInv'[i].pc # "idle"

\* The step with which fetch invocation i returns after its request was sent.
FetchEnds(i) ==
    /\ fetchInv[i].pc \in {"awaitFetch", "awaitText"}
    /\ fetchInv'[i].pc = "done"

\* The step with which download invocation j returns.
PdfEnds(j) ==
    /\ pdfInv[j].pc \in {"awaitFetch", "awaitText", "awaitBlob"}
    /\ pdfInv'[j].pc = "done"

\* The step with which fetch invocation i returns from the await of
\* response.text(), and the same for download invocation j.
FetchTextEnds(i) == fetchInv[i].pc = "awaitText" /\ fetchInv'[i].pc = "done"
PdfTextEnds(j) == pdfInv[j].pc = "awaitText" /\ pdfInv'[j].pc # "awaitText"

\* The requests in flight: the invocations suspended at the await of fetch().
FetchRequestsInFlight == {i \in FetchIds : fetchInv[i].pc = "awaitFetch"}
PdfRequestsInFlight == {j \in PdfIds : pdfInv[j].pc = "awaitFetch"}

\* The error field of a body that is a JSON object with one, "" otherwise.
ErrorFieldOf(text) ==
    LET p == JSONParse(text)
    IN  IF p.ok /\ ~IsNull(p.value) /\ "error" \in DOMAIN p.value
        THEN p.value.error
        ELSE ""

\* Today's calendar date in IST at an instant, written YYYY-MM-DD: the day
\* number of the instant moved by +05:30, turned into year, month and day.
DigitChar(n) ==
    CASE n = 0 -> "0" [] n = 1 -> "1" [] n = 2 -> "2" [] n = 3 -> "3"
      [] n = 4 -> "4" [] n = 5 -> "5" [] n = 6 -> "6" [] n = 7 -> "7"
      [] n = 8 -> "8" [] n = 9 -> "9"

CivilFromDays(z0) ==
    LET z   == z0 + 719468
        era == FloorDiv(z, 146097)
        doe == z - era * 146097
        yoe == (doe - doe \div 1460 + doe \div 36524 - doe \div 146096) \div 365
        doy == doe - (365 * yoe + yoe \div 4 - yoe \div 100)
        mp  == (5 * doy + 2) \div 153
        d   == doy - (153 * mp + 2) \div 5 + 1
        m   == IF mp < 10 THEN mp + 3 ELSE mp - 9
        y   == yoe + era * 400 + (IF m <= 2 THEN 1 ELSE 0)
    IN  <<y, m, d>>

Pad2(n) == <<DigitChar(n \div 10), DigitChar(n % 10)>>
Pad4(n) == <<DigitChar(n \div 1000), DigitChar((n \div 100) % 10),
             DigitChar((n \div 10) % 10), DigitChar(n % 10)>>

IstDateOf(now) ==
    LET t   == TimeValue(now.day, now.ms + IstOffsetMs)
        ymd == CivilFromDays(t.day)
    IN  Pad4(ymd[1]) \o <<"-">> \o Pad2(ymd[2]) \o <<"-">> \o Pad2(ymd[3])

\* The message of the first failing check, in the order district, date,
\* format, future; "" when no check fails.
FirstFailingCheck(district, date, now) ==
    CASE district = "" -> "Please select a district"
      [] district # "" /\ date = <<>> -> "Please select a date"
      [] district # "" /\ date # <<>> /\ ~dateRegexTest(date) ->
           "Invalid date format (use YYYY-MM-DD)"
      [] district # "" /\ date # <<>> /\ dateRegexTest(date)
         /\ TimeGreater(ParseEndOfDayIst(date), now) ->
           "Date cannot be in the future"
      [] OTHER -> ""

\* C1: a click of the fetch control on which a validation check fails
\* (district empty, date empty, date not matching the pattern, or the date's
\* 23:59:59 IST instant strictly after the current instant) sends no
\* /fetch_news request and leaves as status text the message of the first
\* failing check, in the order district, date, format, future.
C1_ValidationFailure ==
    [][\A i \in FetchIds :
         IsFetchClick(i) =>
         \A district \in Districts, date \in WideDateInputs,
            now \in WideNowInputs :
           (/\ FirstFailingCheck(district, date, now) # ""
            /\ FetchClick(i, district, date, now))
           => /\ errorMessage' = FirstFailingCheck(district, date, now)
              /\ FetchRequestsInFlight' = FetchRequestsInFlight
              /\ fetchInv'[i].pc = "done"
              /\ fetchInv'[i].request = NoRequest]_vars

\* A click with a date of tomorrow has returned with the future-date message
\* and no request is in flight.
C1_Witness ==
    /\ errorMessage = "Date cannot be in the future"
    /\ fetchInv[1].pc = "done"
    /\ FetchRequestsInFlight = {}

\* C2: for a non-empty district and a well-formed date equal to today's
\* calendar date in IST, at any current instant of that day, validation
\* passes and the /fetch_news request is sent (the future-date message is not
\* shown).
C2_TodayProceeds ==
    [][\A i \in FetchIds :
         IsFetchClick(i) =>
         \A district \in Districts, date \in WideDateInputs,
            now \in WideNowInputs :
           (/\ district # ""
            /\ dateRegexTest(date)
            /\ date = IstDateOf(now)
            /\ FetchClick(i, district, date, now))
           => /\ errorMessage' # "Date cannot be in the future"
              /\ i \in FetchRequestsInFlight'
              /\ fetchInv'[i].request = FetchRequestBody(district, date)]_vars

\* C3 as claimed: when /fetch_news answers with a status that is not 2xx and
\* a JSON body whose error field is a non-empty string E, the status text at
\* the end of the invocation is exactly E.
C3_ErrorPassedThrough ==
    [][\A i \in FetchIds, text \in FetchBodies :
         (/\ FetchTextEnds(i)
          /\ ~ResponseOk(fetchInv[i].status)
          /\ ErrorFieldOf(text) # ""
          /\ FetchTextResolve(i, text))
         => errorMessage' = ErrorFieldOf(text)]_vars

\* C3 as amended: when /fetch_news answers with a status that is not 2xx and
\* a JSON body whose error field is a non-empty string E, the status text at
\* the end of the invocation is 'Error: ' followed by E.
C3_ErrorPrefixed ==
    [][\A i \in FetchIds, text \in FetchBodies :
         (/\ FetchTextEnds(i)
          /\ ~ResponseOk(fetchInv[i].status)
          /\ ErrorFieldOf(text) # ""
          /\ FetchTextResolve(i, text))
         => errorMessage' = "Error: " \o ErrorFieldOf(text)]_vars

\* A 500 answer with the body {"error":"rate limited"} has been handled.
C3_Witness ==
    /\ errorMessage = "Error: rate limited"
    /\ \E i \in FetchIds : fetchInv[i].pc = "done"

\* C4: when /generate_pdf answers with a 2xx status, the download sub-flow
\* (which reads the body as text and then as a blob) starts a browser
\* download named news_digest_<district>_<date>.pdf, ends with the status
\* text 'PDF downloaded successfully' and leaves the table rows unchanged.
C4_OkPdfDownloads ==
    [][\A j \in PdfIds :
         (PdfEnds(j) /\ ResponseOk(pdfInv[j].status))
         => /\ errorMessage' = "PDF downloaded successfully"
            /\ downloads' =
                 Append(downloads,
                        "news_digest_" \o pdfInv[j].closure.district \o "_"
                        \o Str(pdfInv[j].closure.date) \o ".pdf")
            /\ newsBody' = newsBody]_vars

\* The status texts of a completed render.
LoadedStatuses ==
    {"Articles loaded successfully."}
    \cup {"No real articles found for " \o d
          \o ". Displaying sample data. Please verify your Currents API key in .env (get a free key at https://currentsapi.services/en)."
          : d \in Districts}

\* C5 as claimed: the rendered rows always equal the articles of the most
\* recent successful NewsResult, and every new query and every error
\* (validation errors included) clears the previously rendered rows.
C5_RowsAlwaysLatestResult ==
    [][/\ newsBody' = AppendRows(<<>>, lastResult')
       /\ \A i \in FetchIds : IsFetchClick(i) => newsBody' = <<>>
       /\ \A i \in FetchIds :
            (FetchEnds(i) /\ errorMessage' \notin LoadedStatuses)
            => newsBody' = <<>>]_vars

\* C5 as amended: the rendered rows are always either empty or the rows of
\* the articles of the most recent successful NewsResult; a click of the
\* fetch control (a new query or a validation failure) leaves the rows as
\* they are; an invocation that ends in any other way than a render (a
\* caught exception, a server error, an empty result) clears them; and a
\* render replaces them by the rows of its own articles.
C5_RowsEmptyOrLatestResult ==
    [][/\ newsBody' = <<>> \/ newsBody' = AppendRows(<<>>, lastResult')
       /\ \A i \in FetchIds : IsFetchClick(i) => newsBody' = newsBody
       /\ \A i \in FetchIds :
            (FetchEnds(i) /\ errorMessage' \notin LoadedStatuses)
            => newsBody' = <<>>
       /\ \A i \in FetchIds :
            (FetchEnds(i) /\ errorMessage' \in LoadedStatuses)
            => newsBody' = AppendRows(<<>>, lastResult') /\ newsBody' # <<>>]_vars

\* A validation message is shown next to the rows of an earlier render.
C5_Witness ==
    /\ errorMessage = "Please select a district"
    /\ newsBody # <<>>
    /\ newsBody = AppendRows(<<>>, lastResult)

\* C6: when /generate_pdf answers with a status that is not 2xx, the status
\* text at the end of the download sub-flow is 'PDF generation failed: '
\* followed by E when the body is JSON with a non-empty error field E, and
\* 'Failed to generate PDF. Please try again later.' when the body is not
\* JSON (or could not be read) or has no error field.
C6_PdfFailureMessage ==
    [][\A j \in PdfIds :
         (PdfTextEnds(j) /\ ~ResponseOk(pdfInv[j].status))
         => /\ \A text \in PdfBodies :
                 PdfTextResolve(j, text)
                 => /\ ErrorFieldOf(text) # ""
                       => errorMessage' = "PDF generation failed: " \o ErrorFieldOf(text)
                    /\ (~JSONParse(text).ok \/ "error" \notin DOMAIN JSONParse(text).value)
                       => errorMessage' = "Failed to generate PDF. Please try again later."
            /\ PdfTextReject(j)
               => errorMessage' = "Failed to generate PDF. Please try again later."]_vars

\* A 500 answer of /generate_pdf with the body {"error":"bad input"} has been
\* handled.
C6_Witness ==
    /\ errorMessage = "PDF generation failed: bad input"
    /\ \E j \in PdfIds : pdfInv[j].pc = "done"

\* C7: a failure inside the download sub-flow (network error, timeout,
\* status that is not 2xx, failure while reading the body) changes only the
\* status text: no step of a download invocation changes the table rows, the
\* visibility of the download control or the handler bound to it.
C7_PdfFailureFrame ==
    [][\A j \in PdfIds :
         pdfInv'[j] # pdfInv[j]
         => /\ newsBody' = newsBody
            /\ downloadDisplay' = downloadDisplay
            /\ onclick' = onclick]_vars

\* A download has timed out and the rows, the visible control and its
\* handler are those of the render before it.
C7_Witness ==
    /\ errorMessage \in TimeoutErrorMessages
    /\ newsBody # <<>>
    /\ downloadDisplay = "block"
    /\ onclick.bound
    /\ newsBody = AppendRows(<<>>, onclick.articles)

\* The bodies JSON.parse rejects, and those whose handling throws after
\* parsing.
UnparseableBodies == {t \in FetchBodies \cup {""} : ~JSONParse(t).ok}
ThrowingBodies == {BodyNull, BodyNullArticle}
ThrownMessages ==
    {"Failed to fetch news. Please try again later.",
     "Cannot read properties of null (reading 'error')",
     "Cannot read properties of null (reading 'source')"}
    \cup NetworkErrorMessages
    \cup {ErrorFieldOf(t) : t \in FetchBodies}
    \cup {JSONParse(t).message : t \in UnparseableBodies \cup {BodyPlaceholder}}
ThrownStatuses == {"Error: " \o m : m \in ThrownMessages \ {""}}
TimeoutStatus ==
    "Request timed out. Please check your internet connection or try again later."

\* C8: an exception in the fetch phase of a fetch invocation (network error,
\* timeout, status that is not 2xx, unparseable 2xx body, exception while
\* rendering) ends the invocation with the table empty and the download
\* control hidden; the status text is the timeout message when the error is
\* a timeout and 'Error: ' followed by the error's message otherwise.
C8_FetchException ==
    [][\A i \in FetchIds :
         FetchEnds(i) =>
         /\ \A error \in FetchErrors :
              FetchReject(i, error)
              => /\ newsBody' = <<>>
                 /\ downloadDisplay' = "none"
                 /\ errorMessage' =
                      IF error.name = "TimeoutError" THEN TimeoutStatus
                      ELSE "Error: " \o error.message
         /\ \A text \in FetchBodies \cup {""} :
              (/\ \/ ~ResponseOk(fetchInv[i].status)
                  \/ text \in UnparseableBodies
                  \/ text \in ThrowingBodies
               /\ FetchTextResolve(i, text))
              => /\ newsBody' = <<>>
                 /\ downloadDisplay' = "none"
                 /\ errorMessage' \in ThrownStatuses
         /\ FetchTextReject(i)
            => /\ newsBody' = <<>>
               /\ downloadDisplay' = "none"
               /\ errorMessage' \in ThrownStatuses]_vars

\* A fetch has timed out after an earlier render: the rows are gone and the
\* control is hidden.
C8_Witness ==
    /\ errorMessage = TimeoutStatus
    /\ newsBody = <<>>
    /\ downloadDisplay = "none"
    /\ onclick.bound

\* C9: when /fetch_news answers 2xx with a JSON object that has no error
\* field and an absent or empty articles list, the invocation ends with the
\* status 'No articles found for the selected district and date.', an empty
\* table and a hidden download control; when the object carries a non-empty
\* error field E it ends with 'Server error: ' followed by E, an empty table
\* and a hidden download control, whatever articles the body holds.
C9_EmptyAndServerError ==
    [][\A i \in FetchIds, text \in FetchBodies :
         (/\ FetchTextEnds(i)
          /\ ResponseOk(fetchInv[i].status)
          /\ JSONParse(text).ok
          /\ ~IsNull(JSONParse(text).value)
          /\ FetchTextResolve(i, text))
         => LET result == JSONParse(text).value IN
            /\ (/\ "error" \notin DOMAIN result
                /\ "articles" \notin DOMAIN result \/ result.articles = <<>>)
               => /\ errorMessage' = "No articles found for the selected district and date."
                  /\ newsBody' = <<>>
                  /\ downloadDisplay' = "none"
            /\ ErrorFieldOf(text) # ""
               => /\ errorMessage' = "Server error: " \o ErrorFieldOf(text)
                  /\ newsBody' = <<>>
                  /\ downloadDisplay' = "none"]_vars

\* A 2xx answer that carries an error field and an article has been handled
\* after an earlier render.
C9_Witness ==
    /\ errorMessage = "Server error: quota"
    /\ newsBody = <<>>
    /\ downloadDisplay = "none"
    /\ lastResult # <<>>

\* The value a cell shows for a property: the property when it is a
\* non-empty string, the default otherwise.
Shown(o, k, default) ==
    IF k \in DOMAIN o THEN (IF o[k] = "" THEN default ELSE o[k]) ELSE default

\* C10: when /fetch_news answers 2xx with a non-empty list of articles and no
\* error field, the table afterwards holds exactly one row per article, in
\* the order of the response, with no row of an earlier render; each row
\* shows title or 'No Title', url or '#', category or 'Unknown', source name
\* or 'Unknown Source', publishedAt or 'Unknown Date'; the related-articles
\* cell is 'None' exactly when related_articles is absent or empty; and the
\* download control is shown.
C10_RenderedRows ==
    [][\A i \in FetchIds, text \in FetchBodies :
         (/\ FetchTextEnds(i)
          /\ ResponseOk(fetchInv[i].status)
          /\ JSONParse(text).ok
          /\ ~IsNull(JSONParse(text).value)
          /\ "error" \notin DOMAIN JSONParse(text).value
          /\ "articles" \in DOMAIN JSONParse(text).value
          /\ JSONParse(text).value.articles # <<>>
          /\ \A k \in DOMAIN JSONParse(text).value.articles :
               ~IsNull(JSONParse(text).value.articles[k])
          /\ FetchTextResolve(i, text))
         => LET articles == JSONParse(text).value.articles IN
            /\ Len(newsBody') = Len(articles)
            /\ \A k \in 1..Len(articles) :
                 LET a == articles[k]
                     row == newsBody'[k]
                 IN  /\ row.title = Shown(a, "title", "No Title")
                     /\ row.href = Shown(a, "url", "#")
                     /\ row.category = Shown(a, "category", "Unknown")
                     /\ row.source =
                          IF "source" \in DOMAIN a
                          THEN Shown(a.source, "name", "Unknown Source")
                          ELSE "Unknown Source"
                     /\ row.publishedAt = Shown(a, "publishedAt", "Unknown Date")
                     /\ row.related = "None"
                        <=> \/ "related_articles" \notin DOMAIN a
                            \/ a.related_articles = <<>>
            /\ downloadDisplay' = "block"]_vars

\* The sample-data answer (an article with related articles and an article
\* without any field) has been rendered.
C10_Witness ==
    /\ Len(newsBody) = 2
    /\ newsBody[1].title = "B"
    /\ newsBody[1].related # "None"
    /\ newsBody[2].title = "No Title"
    /\ newsBody[2].related = "None"
    /\ downloadDisplay = "block"

\* The step with which login invocation k returns.
LoginEnds(k) ==
    /\ loginInv[k].pc \in {"awaitFetch", "awaitJson"}
    /\ loginInv'[k].pc = "done"

\* The message field of a parsed /login answer: the text when it is a
\* non-empty string, 'Login failed' when it is absent or empty.
MessageOrLoginFailed(result) ==
    IF "message" \in DOMAIN result
    THEN (IF result.message = "" THEN "Login failed" ELSE result.message)
    ELSE "Login failed"

\* C11: a login submission whose answer is JSON with success true navigates
\* to /dashboard and leaves the error text as it was; an answer with success
\* false shows the server's message, or 'Login failed' when the message is
\* absent or empty, and does not navigate; a network failure, a failure
\* while the body is read, or a body that is not JSON shows 'An error
\* occurred' and does not navigate.
C11_LoginOutcomes ==
    [][\A k \in LoginIds :
         LoginEnds(k) =>
         /\ \A text \in LoginBodies :
              LoginJsonSettle(k, text) =>
              LET p == JSONParse(text) IN
              /\ (p.ok /\ ~IsNull(p.value) /\ "success" \in DOMAIN p.value
                  /\ p.value.success = TRUE)
                 => /\ location' = "/dashboard"
                    /\ loginErrorMessage' = loginErrorMessage
              /\ (p.ok /\ ~IsNull(p.value) /\ "success" \in DOMAIN p.value
                  /\ p.value.success = FALSE)
                 => /\ loginErrorMessage' = MessageOrLoginFailed(p.value)
                    /\ location' = location
              /\ ~p.ok
                 => /\ loginErrorMessage' = "An error occurred"
                    /\ location' = location
         /\ (LoginReject(k) \/ LoginJsonReject(k))
            => /\ loginErrorMessage' = "An error occurred"
               /\ location' = location]_vars

\* One submission was answered {success:false, message:"bad creds"} and
\* another {success:true}: the page has navigated and the error text is
\* still the server's message.
C11_Witness ==
    /\ location = "/dashboard"
    /\ loginErrorMessage = "bad creds"
    /\ \E k \in LoginIds : loginInv[k].pc = "done"

\* The articles a response of /fetch_news makes the handler render: those of
\* a 2xx body that is a JSON object without a (non-empty) error field and
\* with a non-empty list of articles none of which is null; none otherwise.
ArticlesToRender(status, text) ==
    LET p == JSONParse(text) IN
    IF /\ ResponseOk(status)
       /\ p.ok
       /\ ~IsNull(p.value)
       /\ ErrorFieldOf(text) = ""
       /\ "articles" \in DOMAIN p.value
       /\ \A n \in DOMAIN p.value.articles : ~IsNull(p.value.articles[n])
    THEN p.value.articles
    ELSE <<>>

\* No other fetch invocation than i is suspended: i is the last to resolve.
ResolvesLast(i) ==
    \A k \in FetchIds \ {i} : fetchInv[k].pc \notin {"awaitFetch", "awaitText"}

\* The rows, the status text and the visibility of the download control
\* that the response (status, body text) of invocation i determines.
ShowsResponseOf(i, status, text) ==
    LET articles == ArticlesToRender(status, text)
        out == HandleBody(ResponseOk(status), text, fetchInv[i].district)
    IN  /\ newsBody' = AppendRows(<<>>, articles)
        /\ downloadDisplay' = (IF articles # <<>> THEN "block" ELSE "none")
        /\ errorMessage' =
             (IF out.kind = "throw" THEN CatchStatus(out.error) ELSE out.status)

\* The download binding after the step is the one invocation i binds on the
\* response (status, body text).
BindingOf(i, status, text) ==
    onclick' = Handler(ArticlesToRender(status, text),
                       fetchInv[i].district, fetchInv[i].date)

\* C12 as claimed: when fetch invocations overlap, after the invocation
\* whose response resolves last has returned, the table rows, the status
\* text, the visibility of the download control and the handler bound to
\* the download control are those written by that invocation.
C12_LastResolvedWroteAll ==
    [][\A i \in FetchIds :
         (FetchEnds(i) /\ ResolvesLast(i)) =>
         /\ \A text \in FetchBodies \cup {""} :
              FetchTextResolve(i, text)
              => /\ ShowsResponseOf(i, fetchInv[i].status, text)
                 /\ onclick'.bound => BindingOf(i, fetchInv[i].status, text)
         /\ FetchTextReject(i)
            => /\ ShowsResponseOf(i, fetchInv[i].status, BodyPlaceholder)
               /\ onclick'.bound
                  => BindingOf(i, fetchInv[i].status, BodyPlaceholder)
         /\ \A error \in FetchErrors :
              FetchReject(i, error)
              => /\ newsBody' = <<>>
                 /\ downloadDisplay' = "none"
                 /\ errorMessage' = CatchStatus(error)
                 /\ ~onclick'.bound]_vars

\* C12 as amended: when fetch invocations overlap, the invocation whose
\* response resolves last, whichever click issued it, leaves the table rows,
\* the status text and the visibility of the download control as its own
\* response determines them, whatever the invocations that resolved before
\* it wrote; when it renders, the download binding is its own; when it does
\* not render, the control is hidden and the binding stays the one it
\* found (that of the latest render, if any).
C12_LastResolvedWins ==
    [][\A i \in FetchIds :
         (FetchEnds(i) /\ ResolvesLast(i)) =>
         /\ \A text \in FetchBodies \cup {""} :
              FetchTextResolve(i, text)
              => /\ ShowsResponseOf(i, fetchInv[i].status, text)
                 /\ IF ArticlesToRender(fetchInv[i].status, text) # <<>>
                    THEN BindingOf(i, fetchInv[i].status, text)
                    ELSE downloadDisplay' = "none" /\ onclick' = onclick
         /\ FetchTextReject(i)
            => /\ ShowsResponseOf(i, fetchInv[i].status, BodyPlaceholder)
               /\ onclick' = onclick
         /\ \A error \in FetchErrors :
              FetchReject(i, error)
              => /\ newsBody' = <<>>
                 /\ downloadDisplay' = "none"
                 /\ errorMessage' = CatchStatus(error)
                 /\ onclick' = onclick]_vars

\* The second click's invocation returned first and the first click's
\* invocation returned after it with a render: the table shows the result
\* of the earlier-issued query although the later-issued query has
\* completed.
C12_Witness ==
    /\ resolved = <<2, 1>>
    /\ fetchInv[1].pc = "done"
    /\ fetchInv[2].pc = "done"
    /\ newsBody # <<>>
    /\ downloadDisplay = "block"
    /\ errorMessage = "Articles loaded successfully."

\* The step is an activation of the download control by invocation j.
IsPdfClick(j) == pdfInv[j].pc = "idle" /\ pdfInv'[j].pc # "idle"

\* The step is a render: a fetch invocation returns with a loaded status.
IsRender(i) == FetchTextEnds(i) /\ errorMessage' \in LoadedStatuses

\* C13: the download binding is replaced by every render, and by nothing
\* else, with the articles of the rendered response and the district and
\* date of its query; and each activation of the download control sends one
\* /generate_pdf request that carries exactly the articles, district and
\* date of that binding, which are those of the most recent render (the
\* rows on display), never those of a render that a later render replaced.
C13_RequestCarriesLatestRender ==
    [][/\ \A i \in FetchIds :
            IsRender(i) =>
            \A text \in FetchBodies :
              FetchTextResolve(i, text)
              => /\ ArticlesToRender(fetchInv[i].status, text) # <<>>
                 /\ BindingOf(i, fetchInv[i].status, text)
                 /\ lastResult' = ArticlesToRender(fetchInv[i].status, text)
       /\ onclick' # onclick => \E i \in FetchIds : IsRender(i)
       /\ \A j \in PdfIds :
            IsPdfClick(j) =>
            LET request == pdfInv'[j].request IN
            /\ j \in PdfRequestsInFlight'
            /\ request.articles = onclick.articles
            /\ request.district = onclick.district
            /\ request.date = Str(onclick.date)
            /\ request.articles = lastResult
            /\ newsBody = AppendRows(<<>>, request.articles)]_vars

\* A /generate_pdf request is in flight with the articles, district and
\* date of the render on display while another fetch invocation is
\* suspended.
C13_Witness ==
    /\ pdfInv[1].pc = "awaitFetch"
    /\ pdfInv[1].request =
         [articles |-> <<ArticleB, EmptyObject>>, district |-> "Guntur",
          date |-> "2024-06-14"]
    /\ lastResult = <<ArticleB, EmptyObject>>
    /\ fetchInv[1].pc = "done"
    /\ fetchInv[2].pc = "awaitText"

\* C14: no /generate_pdf request is issued before a fetch invocation has
\* completed a render with at least one article and bound the download
\* control: at every activation that sends a request a fetch invocation has
\* returned, the control is bound and the table holds at least one row; and
\* the control becomes bound only by a render.
C14_RenderBeforePdf ==
    [][/\ \A j \in PdfIds :
            IsPdfClick(j) =>
            /\ \E i \in FetchIds : fetchInv[i].pc = "done"
            /\ onclick.bound
            /\ Len(onclick.articles) >= 1
            /\ Len(newsBody) >= 1
            /\ Len(pdfInv'[j].request.articles) >= 1
       /\ (~onclick.bound /\ onclick'.bound)
          => \E i \in FetchIds : IsRender(i) /\ Len(newsBody') >= 1]_vars

\* The first /generate_pdf request is in flight after the first fetch
\* invocation rendered; no other click of the fetch control has been made.
C14_Witness ==
    /\ pdfInv[1].pc = "awaitFetch"
    /\ fetchInv[1].pc = "done"
    /\ fetchInv[2].pc = "idle"
    /\ onclick.bound
    /\ errorMessage = "Generating PDF..."

\* How far a handler invocation has come.
Rank(pc) ==
    CASE pc = "idle" -> 0
      [] pc = "awaitFetch" -> 1
      [] pc \in {"awaitText", "awaitJson"} -> 2
      [] pc = "awaitBlob" -> 3
      [] pc = "done" -> 4
      [] OTHER -> -1

\* The status texts with which a fetch invocation that sent its request can
\* return, and those with which a download invocation can return.
ServerErrorStatuses ==
    {"Server error: " \o ErrorFieldOf(t) : t \in {u \in FetchBodies : ErrorFieldOf(u) # ""}}
EmptyStatus == "No articles found for the selected district and date."
FetchFailureStatuses ==
    ThrownStatuses \cup {TimeoutStatus, EmptyStatus} \cup ServerErrorStatuses
PdfFailureStatuses ==
    {"Failed to generate PDF. Please try again later."}
    \cup NetworkErrorMessages \cup TimeoutErrorMessages
    \cup BodyUsedErrorMessages
    \cup {"PDF generation failed: " \o ErrorFieldOf(t)
          : t \in {u \in PdfBodies : ErrorFieldOf(u) # ""}}

\* C15: nothing is retried and nothing escapes.  Every step of a handler
\* invocation moves it forward (click or submit, await of fetch(), await of
\* the body, return), so a request is sent only by the click, the
\* activation or the submission that starts the invocation, at most once,
\* and an invocation that has returned does nothing more; every way a fetch
\* or download invocation returns after its request leaves one of the
\* handler's status texts (for a failure, the failure's text), and a login
\* failure leaves 'An error occurred'.
C15_NoRetryNoEscape ==
    [][/\ \A i \in FetchIds :
            fetchInv'[i] # fetchInv[i] =>
            /\ Rank(fetchInv'[i].pc) > Rank(fetchInv[i].pc)
            /\ fetchInv'[i].pc \in {"awaitFetch", "awaitText", "done"}
            /\ fetchInv'[i].request # NoRequest => fetchInv[i].pc = "idle"
            /\ FetchEnds(i)
               => errorMessage' \in LoadedStatuses \cup FetchFailureStatuses
            /\ (FetchEnds(i) /\ fetchInv[i].pc = "awaitFetch")
               => errorMessage' \in FetchFailureStatuses
       /\ \A j \in PdfIds :
            pdfInv'[j] # pdfInv[j] =>
            /\ Rank(pdfInv'[j].pc) > Rank(pdfInv[j].pc)
            /\ pdfInv'[j].pc \in {"awaitFetch", "awaitText", "awaitBlob", "done"}
            /\ pdfInv'[j].request # NoPayload => pdfInv[j].pc = "idle"
            /\ PdfEnds(j)
               => errorMessage' \in {"PDF downloaded successfully"} \cup PdfFailureStatuses
            /\ (PdfEnds(j) /\ downloads' = downloads)
               => errorMessage' \in PdfFailureStatuses
       /\ \A k \in LoginIds :
            loginInv'[k] # loginInv[k] =>
            /\ Rank(loginInv'[k].pc) > Rank(loginInv[k].pc)
            /\ loginInv'[k].pc \in {"awaitFetch", "awaitJson", "done"}
            /\ loginInv'[k].request # NoRequest => loginInv[k].pc = "idle"
            /\ (loginInv'[k].pc = "done" /\ loginInv[k].pc = "awaitFetch")
               => loginErrorMessage' = "An error occurred"]_vars

\* A download failed on the network after a second fetch invocation had
\* failed and cleared the table: every invocation has returned, no request
\* is in flight and the status text is the download's failure.
C15_Witness ==
    /\ errorMessage \in NetworkErrorMessages
    /\ newsBody = <<>>
    /\ \A i \in FetchIds : fetchInv[i].pc = "done"
    /\ \A j \in PdfIds : pdfInv[j].pc = "done"
    /\ FetchRequestsInFlight = {}
    /\ PdfRequestsInFlight = {}

\* The ways a fetch invocation that sent its request returns, as the page
\* shows them after the step.
EndsRendered ==
    errorMessage' \in LoadedStatuses /\ newsBody' # <<>> /\ downloadDisplay' = "block"
EndsEmpty ==
    errorMessage' = EmptyStatus /\ newsBody' = <<>> /\ downloadDisplay' = "none"
EndsServerError ==
    errorMessage' \in ServerErrorStatuses /\ newsBody' = <<>> /\ downloadDisplay' = "none"
EndsCaught ==
    /\ errorMessage' \in ThrownStatuses \cup {TimeoutStatus}
    /\ newsBody' = <<>>
    /\ downloadDisplay' = "none"

\* The ways a download invocation returns.
EndsDownloaded ==
    errorMessage' = "PDF downloaded successfully" /\ Len(downloads') = Len(downloads) + 1
EndsPdfCaught ==
    errorMessage' \in PdfFailureStatuses /\ downloads' = downloads

\* Exactly one of the given conditions holds.
ExactlyOne(conditions) ==
    \E n \in DOMAIN conditions :
      /\ conditions[n]
      /\ \A m \in DOMAIN conditions \ {n} : ~conditions[m]

\* C16: under the 15-second timeout of each network call, every fetch
\* invocation that passed validation and every download sub-flow eventually
\* returns, and the step with which it returns is exactly one of its
\* terminal outcomes: rendered, empty result, server error or caught
\* exception for a fetch; downloaded or caught failure for a download.
C16_Terminates ==
    /\ \A i \in FetchIds :
         (fetchInv[i].pc = "awaitFetch") ~> (fetchInv[i].pc = "done")
    /\ \A j \in PdfIds :
         (pdfInv[j].pc = "awaitFetch") ~> (pdfInv[j].pc = "done")
    /\ [][/\ \A i \in FetchIds :
               FetchEnds(i)
               => ExactlyOne(<<EndsRendered, EndsEmpty, EndsServerError, EndsCaught>>)
          /\ \A j \in PdfIds :
               PdfEnds(j) => ExactlyOne(<<EndsDownloaded, EndsPdfCaught>>)]_vars

\* A download has returned downloaded after a fetch invocation returned
\* rendered, and every invocation that was started has returned.
C16_Witness ==
    /\ errorMessage = "PDF downloaded successfully"
    /\ Len(downloads) = 1
    /\ newsBody # <<>>
    /\ \A i \in FetchIds : fetchInv[i].pc \in {"idle", "done"}
    /\ \A j \in PdfIds : pdfInv[j].pc = "done"

\* C17: a download sub-flow creates an object URL and inserts an anchor only
\* in the step after pdfResponse.blob() resolved, and that step revokes the
\* URL and removes the anchor before it ends: no step leaves an object URL
\* unrevoked or an anchor in the document, so when a download sub-flow has
\* returned, by whichever path, none is left.
C17_ResourcesReleased ==
    /\ (\E j \in PdfIds : pdfInv[j].pc = "done")
       => objectURLs = 0 /\ bodyAnchors = 0
    /\ (\A j \in PdfIds : pdfInv[j].pc # "done")
       => objectURLs = 0 /\ bodyAnchors = 0 /\ downloads = <<>>

\* A download sub-flow has returned through the success branch: the browser
\* started the download and no object URL or anchor is left.
C17_Witness ==
    /\ pdfInv[1].pc = "done"
    /\ downloads = <<"news_digest_Guntur_2024-06-14.pdf">>
    /\ objectURLs = 0
    /\ bodyAnchors = 0

\* C18: on a page that starts with the download control hidden and the
\* table empty, in every reachable state the download control is visible
\* exactly when the table has at least one row, and whenever it is visible
\* the handler bound to it captured exactly the articles of the rendered
\* rows.
C18_ControlMatchesTable ==
    /\ downloadDisplay = "block" <=> Len(newsBody) >= 1
    /\ downloadDisplay = "block"
       => /\ onclick.bound
          /\ newsBody = AppendRows(<<>>, onclick.articles)
          /\ Len(onclick.articles) = Len(newsBody)

\* The control is hidden over an empty table after a failure that followed
\* a render, while a download of the earlier render is still in flight.
C18_Witness ==
    /\ downloadDisplay = "none"
    /\ newsBody = <<>>
    /\ onclick.bound
    /\ pdfInv[1].pc = "awaitText"
    /\ \A i \in FetchIds : fetchInv[i].pc = "done"

\* The messages of the validation checks.
ValidationMessages ==
    {"Please select a district", "Please select a date",
     "Invalid date format (use YYYY-MM-DD)", "Date cannot be in the future"}

\* C19: a click of the fetch control that fails validation changes only the
\* status text (to the validation message): the table rows, the visibility
\* of the download control and the handler bound to it stay exactly as they
\* were and no request is sent, so an earlier render stays displayed and
\* downloadable.
C19_ValidationFrame ==
    [][\A i \in FetchIds :
         (IsFetchClick(i) /\ fetchInv'[i].pc = "done")
         => /\ errorMessage' \in ValidationMessages
            /\ newsBody' = newsBody
            /\ downloadDisplay' = downloadDisplay
            /\ onclick' = onclick
            /\ FetchRequestsInFlight' = FetchRequestsInFlight
            /\ pdfInv' = pdfInv
            /\ downloadDisplay' = "block"
               => /\ onclick'.bound
                  /\ newsBody' = AppendRows(<<>>, onclick'.articles)]_vars

\* The future-date message is shown next to the rows of an earlier render,
\* with the download control visible, bound to that render and not yet used.
C19_Witness ==
    /\ errorMessage = "Date cannot be in the future"
    /\ Len(newsBody) >= 1
    /\ downloadDisplay = "block"
    /\ newsBody = AppendRows(<<>>, onclick.articles)
    /\ pdfInv[1].pc = "idle"

\* The tables a single response can produce: the rows of the articles of one
\* response body, or no row.
SingleResultTables ==
    {AppendRows(<<>>, ArticlesToRender(200, t)) : t \in FetchBodies}

\* C20: under any interleaving of overlapping fetch invocations, in every
\* state between handler steps all rows of the table come from a single
\* response: the table is empty or holds exactly the rows of the articles of
\* one response, in order, never rows of two responses.
C20_RowsOfOneResult ==
    /\ newsBody \in SingleResultTables
    /\ newsBody # <<>> => newsBody = AppendRows(<<>>, lastResult)

\* A later-issued invocation has rendered the two rows of its response
\* while the earlier-issued invocation is still reading its body.
C20_Witness ==
    /\ fetchInv[1].pc = "awaitText"
    /\ fetchInv[2].pc = "done"
    /\ Len(newsBody) = 2
    /\ newsBody[1].title = "B"
    /\ downloadDisplay = "block"
====
